---- MODULE Spec2Model ----
(***************************************************************************)
(* Model of the PhysTwin2 evaluation utilities:                            *)
(*   - gs_render.py: pruning of a Gaussian set (alpha-mask visibility,     *)
(*     opacity, point-mesh distance) and ray-direction generation;         *)
(*   - evaluate_chamfer.py: the per-split Chamfer evaluation and the       *)
(*     driver loop writing the results CSV.                                *)
(* Real-valued quantities are exact rationals: a coordinate is an integer, *)
(* a quotient is kept as numerator/denominator, an opacity is in           *)
(* thousandths.  Floating-point rounding error is not modelled.            *)
(***************************************************************************)
EXTENDS Integers, Sequences, FiniteSets, TLC

VARIABLES
    views,        \* scene.getTrainCameras(): the list of camera views
    gaussians,    \* the GaussianModel the caller's variable is bound to
    call,         \* the last pruning call: operation, argument before/after, result
    nanLong,      \* what this build's float->long conversion makes of NaN
    rsPc,         \* the position of render_sets ("free": another caller prunes)
    rendered,     \* the render_set calls made: the set name and the Gaussians drawn
    dataset,      \* the data files on disk (final_data.pkl, inference.pkl)
    cases,        \* glob(prediction_dir/*): per case the frame count and split
    dirIdx,       \* the position of the loop over dir_names
    pc,           \* the position of evaluate_chamfer's main block
    ev,           \* the running evaluate_prediction call: range, loop index, errors
    results_train,
    results_test,
    rows,         \* the rows written to results/final_results.csv
    lastEval,     \* the last evaluate_prediction call that returned
    K,            \* the caller's camera intrinsics tensor
    K0,           \* the intrinsics as the caller created them
    rayCalls,     \* calls of get_ray_directions made so far
    rayLast,      \* the last call of get_ray_directions: arguments and result
    rayPrev       \* the call before it

pruneVars == <<views, gaussians, call, nanLong, rsPc, rendered>>

evalVars == <<dataset, cases, dirIdx, pc, ev, results_train, results_test, rows, lastEval>>

rayVars == <<K, K0, rayCalls, rayLast, rayPrev>>

vars == <<views, gaussians, call, nanLong, rsPc, rendered,
          dataset, cases, dirIdx, pc, ev, results_train, results_test, rows, lastEval,
          K, K0, rayCalls, rayLast, rayPrev>>

\* ------------------------------------------------------------------ bounds

MaxPoints == 2      \* Gaussians in the loaded set
MaxViews == 2       \* train cameras of the scene
MaxFrames == 3      \* predicted frames of a case
MaxCases == 2       \* case directories under prediction_dir
MaxRayCalls == 3    \* calls of get_ray_directions on one intrinsics tensor
MaxJitterPixels == 1 \* pixels of a call with random=True

\* ------------------------------------------------------------- sequences

\* tensor[mask3d]: boolean-mask indexing keeps the entries whose flag is set,
\* in order.
RECURSIVE MaskSelect(_, _)
MaskSelect(arr, mask3d) ==
    IF arr = <<>> THEN <<>>
    ELSE LET rest == MaskSelect(Tail(arr), Tail(mask3d))
         IN IF Head(mask3d) THEN <<Head(arr)>> \o rest ELSE rest

\* ------------------------------------------------------------ Gaussian set

\* The six per-point attribute arrays of a GaussianModel.
Attributes == {"_xyz", "_features_dc", "_features_rest", "_scaling", "_rotation", "_opacity"}

\* Raw opacities (logits) and their activation in thousandths: -2 stands for
\* logit(0.1), whose activation is exactly 0.1.
RawOpacities == {-3, -2, 0}

opacity_activation(raw) ==
    CASE raw = -3 -> 47
      [] raw = -2 -> 100
      [] raw = 0 -> 500

\* Positions and raw opacities of the Gaussians a checkpoint may hold.
GaussianPool ==
    << [xyz |-> <<0, 0, 1>>, opacity |-> 0],
       [xyz |-> <<1, 0, 1>>, opacity |-> -2],
       [xyz |-> <<1, 1, 2>>, opacity |-> -3],
       [xyz |-> <<0, 0, 0>>, opacity |-> 0],
       [xyz |-> <<-1, 0, 1>>, opacity |-> -2],
       [xyz |-> <<0, 1, -1>>, opacity |-> -3] >>

\* Scene(...) loads the checkpoint: array entry i of every attribute is the
\* value of point i; pt is the point the entry was loaded for.
LoadGaussians(picks) ==
    [a \in Attributes |->
        [i \in 1..Len(picks) |->
            [pt |-> i,
             v |-> CASE a = "_xyz" -> GaussianPool[picks[i]].xyz
                     [] a = "_opacity" -> GaussianPool[picks[i]].opacity
                     [] OTHER -> <<a, picks[i]>>]]]

PointLists == UNION {[1..n -> 1..Len(GaussianPool)] : n \in 0..MaxPoints}

\* ------------------------------------------------------------------ views

Identity3 == <<<<1, 0, 0>>, <<0, 1, 0>>, <<0, 0, 1>>>>
RotZ90 == <<<<0, -1, 0>>, <<1, 0, 0>>, <<0, 0, 1>>>>

\* The cameras a scene may hold: intrinsics K, rotation R, translation T,
\* image size and the alpha mask (rows v, columns u; 0 or 1).
Cameras ==
    { [image_height |-> 2, image_width |-> 2, K |-> Identity3,
       R |-> Identity3, T |-> <<0, 0, 0>>,
       alpha_mask |-> <<<<1, 1>>, <<0, 0>>>>],
      [image_height |-> 2, image_width |-> 2, K |-> Identity3,
       R |-> RotZ90, T |-> <<0, 0, 0>>,
       alpha_mask |-> <<<<1, 0>>, <<1, 0>>>>],
      [image_height |-> 1, image_width |-> 2, K |-> <<<<2, 0, 1>>, <<0, 2, 0>>, <<0, 0, 1>>>>,
       R |-> Identity3, T |-> <<0, 0, 1>>,
       alpha_mask |-> <<<<0, 1>>>>] }

ViewLists == UNION {[1..n -> Cameras] : n \in 0..MaxViews}

\* ------------------------------------------------------------- projection

\* torch.round: to the nearest integer, a tie to the even one (den # 0).
RoundHalfEven(num, den) ==
    LET n == IF den < 0 THEN -num ELSE num
        d == IF den < 0 THEN -den ELSE den
        q == n \div d
        r == n % d
    IN IF 2 * r < d THEN q
       ELSE IF 2 * r > d THEN q + 1
       ELSE IF q % 2 = 0 THEN q ELSE q + 1

\* The World-to-Camera matrix: rows of R transposed, then T.
W2C(view) ==
    [i \in 1..3 |-> [j \in 1..4 |->
        IF j <= 3 THEN view.R[j][i] ELSE view.T[i]]]

\* Camera-space coordinates of a point: [x y z 1] times W2C transposed.
CameraSpace(p, view) ==
    [i \in 1..3 |->
        W2C(view)[i][1] * p[1] + W2C(view)[i][2] * p[2]
            + W2C(view)[i][3] * p[3] + W2C(view)[i][4]]

\* One pixel coordinate: row `row` of K applied to the point normalised by
\* its z, rounded and converted to long.  With z = 0 the quotient is NaN and
\* the conversion yields whatever the build makes of NaN (nan).
PixelCoord(cam, intrinsics, row, nan) ==
    IF cam[3] = 0 THEN nan
    ELSE RoundHalfEven(intrinsics[row][1] * cam[1] + intrinsics[row][2] * cam[2]
                           + intrinsics[row][3] * cam[3],
                       cam[3])

\* uv[i]: the integer pixel (u, v) of a point in a view.
ProjectUV(p, view, nan) ==
    LET cam == CameraSpace(p, view)
    IN <<PixelCoord(cam, view.K, 1, nan), PixelCoord(cam, view.K, 2, nan)>>

\* Mutant of ValidUV: the lower bounds are not tested.
ValidUV_NoLowerBound(uv, view) ==
    /\ uv[1] < view.image_width
    /\ uv[2] < view.image_height

\* valid_uv[i]: (u, v) is within the image bounds.
ValidUV(uv, view) ==
    /\ uv[1] >= 0
    /\ uv[1] < view.image_width
    /\ uv[2] >= 0
    /\ uv[2] < view.image_height

\* alpha_mask[v, u] with Python's indexing: a negative index counts from
\* the end.  Only evaluated for indices the tensor accepts.
MaskAt(view, v, u) ==
    LET row == IF v < 0 THEN v + view.image_height ELSE v
        col == IF u < 0 THEN u + view.image_width ELSE u
    IN view.alpha_mask[row + 1][col + 1]

\* The test of the inner loop: valid_uv[i] and alpha_mask[v, u] > 0.
CountsInView(p, view, nan) ==
    LET uv == ProjectUV(p, view, nan)
    IN ValidUV(uv, view) /\ MaskAt(view, uv[2], uv[1]) > 0

\* gaussians_view_counter after the loop over the first k views: starts at
\* zero, one increment per view that counts the point.
RECURSIVE ViewCounter(_, _, _, _)
ViewCounter(xyz, vs, k, nan) ==
    IF k = 0 THEN [i \in 1..Len(xyz) |-> 0]
    ELSE LET before == ViewCounter(xyz, vs, k - 1, nan)
         IN [i \in 1..Len(xyz) |->
                IF CountsInView(xyz[i].v, vs[k], nan)
                THEN before[i] + 1 ELSE before[i]]

\* VIEW_THRESHOLD = 1.0, in hundredths.
VIEW_THRESHOLD == 100

\* Mutant of MeetsViewThreshold: half of the views are enough.
MeetsViewThreshold_Half(count, nviews) ==
    count * 100 >= nviews * 50

\* mask3d[i]: gaussians_view_counter[i] >= len(views) * VIEW_THRESHOLD.
MeetsViewThreshold(count, nviews) ==
    count * 100 >= nviews * VIEW_THRESHOLD

\* ---------------------------------------------------------------- pruning

\* Mutant of FilterAttributes: _rotation keeps the deep copy's array.
FilterAttributes_RotationUnfiltered(g, mask3d) ==
    [a \in Attributes |-> IF a = "_rotation" THEN g[a] ELSE MaskSelect(g[a], mask3d)]

\* Mutant of ArgumentAfter: new_gaussians is the argument itself, not a
\* copy, so the assignments land in the argument.
ArgumentAfter_Aliased(g, mask3d) ==
    [a \in Attributes |-> MaskSelect(g[a], mask3d)]

\* The argument object once the call has returned: the assignments go to the
\* deep copy and tensor[mask3d] builds new tensors, so it is as it was.
ArgumentAfter(g, mask3d) == g

\* new_gaussians = copy.deepcopy(gaussians), then each of the six attribute
\* arrays is assigned the argument's array indexed by mask3d.
FilterAttributes(g, mask3d) ==
    [a \in Attributes |-> MaskSelect(g[a], mask3d)]

\* remove_gaussians_with_mask: the counter over all views, the keep-mask and
\* the new set.
remove_gaussians_with_mask(g, vs, nan) ==
    LET counter == ViewCounter(g["_xyz"], vs, Len(vs), nan)
        mask3d == [i \in 1..Len(g["_xyz"]) |-> MeetsViewThreshold(counter[i], Len(vs))]
    IN [counter |-> counter, mask3d |-> mask3d, ret |-> FilterAttributes(g, mask3d)]

\* gaussians.get_opacity.squeeze(-1): the activated opacities.
get_opacity(g) ==
    [i \in 1..Len(g["_opacity"]) |-> opacity_activation(g["_opacity"][i].v)]

\* mask3d = opacity > opacity_threshold, one point.
OpacityKeeps(opacity, opacity_threshold) ==
    opacity > opacity_threshold

\* remove_gaussians_with_low_opacity.
remove_gaussians_with_low_opacity(g, opacity_threshold) ==
    LET opacity == get_opacity(g)
        mask3d == [i \in 1..Len(opacity) |-> OpacityKeeps(opacity[i], opacity_threshold)]
    IN [mask3d |-> mask3d, ret |-> FilterAttributes(g, mask3d)]

\* Squared Euclidean distance of two points.
Dist2(p, q) ==
    (p[1] - q[1]) * (p[1] - q[1]) + (p[2] - q[2]) * (p[2] - q[2])
        + (p[3] - q[3]) * (p[3] - q[3])

\* ops.ball_query(..., K=1, radius)[1] for one point: the index (from 0) of
\* the first mesh point strictly within the radius, or -1.
BallQueryIdx(p, mesh_sampled_points, radius) ==
    LET near == {j \in 1..Len(mesh_sampled_points) :
                    Dist2(p, mesh_sampled_points[j]) < radius * radius}
    IN IF near = {} THEN -1
       ELSE (CHOOSE j \in near : \A k \in near : j <= k) - 1

\* remove_gaussians_with_point_mesh_distance.
remove_gaussians_with_point_mesh_distance(g, mesh_sampled_points, dist_threshold) ==
    LET mask3d == [i \in 1..Len(g["_xyz"]) |->
                      BallQueryIdx(g["_xyz"][i].v, mesh_sampled_points, dist_threshold) # -1]
    IN [mask3d |-> mask3d, ret |-> FilterAttributes(g, mask3d)]

\* The opacity thresholds a caller passes, in thousandths; the first is the
\* default.
DefaultOpacityThreshold == 100
OpacityThresholds == {DefaultOpacityThreshold, 300}

\* The reference surfaces and radii (mesh_sampled_points, dist_threshold) a
\* caller passes.
MeshQueries ==
    { [mesh_sampled_points |-> <<<<0, 0, 1>>>>, dist_threshold |-> 1],
      [mesh_sampled_points |-> <<<<3, 1, 1>>, <<1, 0, 0>>>>, dist_threshold |-> 2] }

\* A NaN converted to long: 0 on the GPU, the most negative long (here a
\* stand-in below every image index) on the CPU.
NanToLong == {0, -(2 ^ 30)}

NoCall == [op |-> "none"]

\* The evaluator's state while the renderer runs: nothing loaded.
EvalIdle ==
    /\ dataset = <<>>
    /\ cases = <<>>
    /\ dirIdx = 0
    /\ pc = "idle"
    /\ ev = <<>>
    /\ results_train = <<>>
    /\ results_test = <<>>
    /\ rows = <<>>
    /\ lastEval = <<>>

\* The ray generator's state while another program runs: no tensor.
RayIdle ==
    /\ K = <<>>
    /\ K0 = <<>>
    /\ rayCalls = 0
    /\ rayLast = <<>>
    /\ rayPrev = <<>>

InitPrune ==
    /\ EvalIdle
    /\ RayIdle
    /\ views \in ViewLists
    /\ \E picks \in PointLists : gaussians = LoadGaussians(picks)
    /\ call = NoCall
    /\ nanLong \in NanToLong
    /\ rsPc = "free"
    /\ rendered = <<>>

\* gaussians = remove_gaussians_with_mask(gaussians, scene.getTrainCameras())
RemoveWithMask ==
    LET r == remove_gaussians_with_mask(gaussians, views, nanLong)
    IN /\ call' = [op |-> "mask", arg |-> gaussians, argAfter |-> ArgumentAfter(gaussians, r.mask3d),
                   ret |-> r.ret, mask3d |-> r.mask3d, counter |-> r.counter]
       /\ gaussians' = r.ret
       /\ UNCHANGED <<views, nanLong, rsPc, rendered, evalVars, rayVars>>

\* gaussians = remove_gaussians_with_low_opacity(gaussians[, opacity_threshold])
RemoveLowOpacity ==
    \E th \in OpacityThresholds :
        LET r == remove_gaussians_with_low_opacity(gaussians, th)
        IN /\ call' = [op |-> "opacity", arg |-> gaussians, argAfter |-> ArgumentAfter(gaussians, r.mask3d),
                       ret |-> r.ret, mask3d |-> r.mask3d, opacity_threshold |-> th]
           /\ gaussians' = r.ret
           /\ UNCHANGED <<views, nanLong, rsPc, rendered, evalVars, rayVars>>

\* gaussians = remove_gaussians_with_point_mesh_distance(gaussians, mesh, dist)
RemoveFarFromMesh ==
    \E q \in MeshQueries :
        LET r == remove_gaussians_with_point_mesh_distance(
                     gaussians, q.mesh_sampled_points, q.dist_threshold)
        IN /\ call' = [op |-> "mesh", arg |-> gaussians, argAfter |-> ArgumentAfter(gaussians, r.mask3d),
                       ret |-> r.ret, mask3d |-> r.mask3d,
                       mesh_sampled_points |-> q.mesh_sampled_points,
                       dist_threshold |-> q.dist_threshold]
           /\ gaussians' = r.ret
           /\ UNCHANGED <<views, nanLong, rsPc, rendered, evalVars, rayVars>>

NextPrune ==
    \/ RemoveWithMask
    \/ RemoveLowOpacity
    \/ RemoveFarFromMesh

SpecPrune == InitPrune /\ [][NextPrune]_vars

\* ------------------------------------------------------------- render_sets

\* render_set(model_path, name, iteration, views, gaussians, ...): every view
\* is rendered from the Gaussians passed, which are only read.  What is kept
\* of a call is the set name and the Gaussians drawn (the images are the
\* rasterizer's).
render_set(name, g) == [name |-> name, gaussians |-> g]

\* The program is either render_sets, just after Scene(...) loaded the
\* checkpoint and the cameras, or another caller of the pruning functions.
InitRenderSets ==
    /\ EvalIdle
    /\ RayIdle
    /\ views \in ViewLists
    /\ \E picks \in PointLists : gaussians = LoadGaussians(picks)
    /\ call = NoCall
    /\ nanLong \in NanToLong
    /\ rsPc \in {"free", "loaded"}
    /\ rendered = <<>>

\* if remove_gaussians: gaussians = remove_gaussians_with_mask(gaussians,
\* scene.getTrainCameras())
RsRemoveOutsideMask ==
    /\ rsPc = "loaded"
    /\ rsPc' = "masked"
    /\ \E remove_gaussians \in BOOLEAN :
          IF remove_gaussians
          THEN LET r == remove_gaussians_with_mask(gaussians, views, nanLong)
               IN /\ call' = [op |-> "mask", arg |-> gaussians,
                              argAfter |-> ArgumentAfter(gaussians, r.mask3d),
                              ret |-> r.ret, mask3d |-> r.mask3d, counter |-> r.counter]
                  /\ gaussians' = r.ret
          ELSE UNCHANGED <<call, gaussians>>
    /\ UNCHANGED <<views, nanLong, rendered, evalVars, rayVars>>

\* gaussians = remove_gaussians_with_low_opacity(gaussians)
RsRemoveLowOpacity ==
    /\ rsPc = "masked"
    /\ rsPc' = "pruned"
    /\ LET r == remove_gaussians_with_low_opacity(gaussians, DefaultOpacityThreshold)
       IN /\ call' = [op |-> "opacity", arg |-> gaussians,
                      argAfter |-> ArgumentAfter(gaussians, r.mask3d),
                      ret |-> r.ret, mask3d |-> r.mask3d,
                      opacity_threshold |-> DefaultOpacityThreshold]
          /\ gaussians' = r.ret
    /\ UNCHANGED <<views, nanLong, rendered, evalVars, rayVars>>

\* if not skip_train: render_set(..., "train", ..., gaussians, ...)
RsRenderTrain ==
    /\ rsPc = "pruned"
    /\ rsPc' = "trained"
    /\ \E skip_train \in BOOLEAN :
          rendered' = IF skip_train THEN rendered
                      ELSE Append(rendered, render_set("train", gaussians))
    /\ UNCHANGED <<views, gaussians, call, nanLong, evalVars, rayVars>>

\* if not skip_test: render_set(..., "test", ..., gaussians, ...)
RsRenderTest ==
    /\ rsPc = "trained"
    /\ rsPc' = "done"
    /\ \E skip_test \in BOOLEAN :
          rendered' = IF skip_test THEN rendered
                      ELSE Append(rendered, render_set("test", gaussians))
    /\ UNCHANGED <<views, gaussians, call, nanLong, evalVars, rayVars>>

NextRenderSets ==
    \/ RsRemoveOutsideMask
    \/ RsRemoveLowOpacity
    \/ RsRenderTrain
    \/ RsRenderTest

\* The callers of the pruning functions: render_sets, or a caller applying
\* them in any order.
NextPruneRender ==
    \/ rsPc = "free" /\ NextPrune
    \/ NextRenderSets

SpecPruneRender == InitRenderSets /\ [][NextPruneRender]_vars

\* ------------------------------------------------------------- rationals

Abs(x) == IF x < 0 THEN -x ELSE x

RECURSIVE GCD(_, _)
GCD(a, b) == IF b = 0 THEN a ELSE GCD(b, a % b)

\* The fraction n/d (d > 0) in lowest terms.
Rat(n, d) == LET g == GCD(Abs(n), d) IN <<n \div g, d \div g>>

RatAdd(a, b) == Rat(a[1] * b[2] + b[1] * a[2], a[2] * b[2])

RECURSIVE RatSum(_)
RatSum(qs) == IF qs = <<>> THEN <<0, 1>> ELSE RatAdd(Head(qs), RatSum(Tail(qs)))

\* ---------------------------------------------------------- evaluator data

\* Python's seq[i]: a negative index counts from the end; anything outside
\* -len .. len-1 raises IndexError.
PyIndexOk(seq, i) == -Len(seq) <= i /\ i < Len(seq)

PyIndex(seq, i) == seq[(IF i < 0 THEN i + Len(seq) ELSE i) + 1]

\* Per-frame contents of the pickles: predicted vertices, ground-truth
\* object points and their visibility flags.
FrameSamples ==
    << [vertices |-> <<<<0, 0>>, <<2, 1>>, <<9, 9>>>>,
        object_points |-> <<<<0, 1>>, <<3, 3>>>>,
        object_visibilities |-> <<TRUE, TRUE>>],
       [vertices |-> <<<<1, 0>>, <<0, 0>>, <<3, 3>>>>,
        object_points |-> <<<<1, 2>>, <<3, 3>>>>,
        object_visibilities |-> <<TRUE, FALSE>>],
       [vertices |-> <<<<0, 0>>, <<1, 1>>, <<2, 2>>>>,
        object_points |-> <<<<2, 2>>, <<0, 3>>>>,
        object_visibilities |-> <<TRUE, TRUE>>],
       [vertices |-> <<<<4, 0>>, <<0, 1>>, <<1, 1>>>>,
        object_points |-> <<<<1, 0>>, <<0, 0>>>>,
        object_visibilities |-> <<FALSE, FALSE>>] >>

\* The data sets on disk: which sample frame f holds, and the number of
\* extra surface points (data["surface_points"].shape[0]).
Datasets ==
    { [first |-> 0, surface_points |-> 0],
      [first |-> 1, surface_points |-> 1] }

\* The tensors a case with nframes predicted frames loads.
CaseData(ds, nframes) ==
    LET sample(f) == FrameSamples[((f + ds.first) % Len(FrameSamples)) + 1]
    IN [vertices |-> [f \in 1..nframes |-> sample(f - 1).vertices],
        object_points |-> [f \in 1..nframes |-> sample(f - 1).object_points],
        object_visibilities |-> [f \in 1..nframes |-> sample(f - 1).object_visibilities],
        object_motions_valid |-> [f \in 1..(nframes - 1) |-> <<TRUE, TRUE>>],
        num_original_points |-> Len(sample(0).object_points),
        num_surface_points |-> Len(sample(0).object_points) + ds.surface_points]

\* A case directory: the number of predicted frames (vertices.shape[0]) and
\* the split ends split["train"][1], split["test"][1].
CaseSet ==
    UNION { {[nframes |-> n, train_frame |-> t, test_frame |-> n] : t \in 0..(n + 1)}
            \cup {[nframes |-> n, train_frame |-> 1, test_frame |-> n + 1],
                  [nframes |-> n, train_frame |-> 1, test_frame |-> n - 1]}
            : n \in 1..MaxFrames }

CaseLists == UNION {[1..k -> CaseSet] : k \in 1..MaxCases}

\* --------------------------------------------------------- Chamfer distance

\* L1 distance of two points.
L1(p, q) == Abs(p[1] - q[1]) + Abs(p[2] - q[2])

\* The distance from p to its nearest neighbour among ys (ys not empty).
NearestL1(p, ys) ==
    LET ds == {L1(p, ys[j]) : j \in 1..Len(ys)}
    IN CHOOSE d \in ds : \A e \in ds : d <= e

RECURSIVE SumNearest(_, _)
SumNearest(xs, ys) ==
    IF xs = <<>> THEN 0 ELSE NearestL1(Head(xs), ys) + SumNearest(Tail(xs), ys)

\* chamfer_distance(x, y, single_directional=True, norm=1)[0] for a batch of
\* one: the mean over the points of x of the L1 distance to the nearest
\* point of y (the point count clamped to at least 1).
chamfer_distance(xs, ys) ==
    Rat(SumNearest(xs, ys), IF Len(xs) = 0 THEN 1 ELSE Len(xs))

\* Mutant of SurfaceVertices: every predicted vertex is used.
SurfaceVertices_All(x, num_surface_points) == x

\* chamfer_x = x[:num_surface_points].
SurfaceVertices(x, num_surface_points) ==
    SubSeq(x, 1, IF num_surface_points < Len(x) THEN num_surface_points ELSE Len(x))

\* The body of the loop for one frame: the one-directional error between the
\* ground-truth points visible in the frame and the predicted surface points.
FrameChamfer(data, frame_idx) ==
    LET x == PyIndex(data.vertices, frame_idx)
        current_object_points == PyIndex(data.object_points, frame_idx)
        current_object_visibilities == PyIndex(data.object_visibilities, frame_idx)
        chamfer_object_points == MaskSelect(current_object_points, current_object_visibilities)
        chamfer_x == SurfaceVertices(x, data.num_surface_points)
    IN chamfer_distance(chamfer_object_points, chamfer_x)

\* The four indexing expressions of the loop body succeed.
FrameIndexable(data, frame_idx) ==
    /\ PyIndexOk(data.vertices, frame_idx)
    /\ PyIndexOk(data.object_points, frame_idx)
    /\ PyIndexOk(data.object_visibilities, frame_idx)
    /\ PyIndexOk(data.object_motions_valid, frame_idx - 1)

\* np.mean of the collected errors; of an empty list it is nan.
np_mean(chamfer_errors) ==
    IF chamfer_errors = <<>> THEN "nan"
    ELSE LET total == RatSum(chamfer_errors)
         IN Rat(total[1], total[2] * Len(chamfer_errors))

\* Mutant of LoopContinues: the end frame is included.
LoopContinues_Inclusive(frame_idx, end_frame) == frame_idx <= end_frame

\* for frame_idx in range(start_frame, end_frame): another iteration follows.
LoopContinues(frame_idx, end_frame) == frame_idx < end_frame

\* --------------------------------------------------- pruning: properties

\* The six arrays of g have one length, and entry i of each was loaded for
\* the same point.
Aligned(g) ==
    \A a, b \in Attributes :
        /\ Len(g[a]) = Len(g[b])
        /\ \A i \in 1..Len(g[a]) : g[a][i].pt = g[b][i].pt

\* The points (as loaded) present in g.
PointsOf(g) == {g["_xyz"][i].pt : i \in 1..Len(g["_xyz"])}

\* C1: after any sequence of the three pruning operations on a set whose six
\* attribute arrays start with equal length, the six arrays of every
\* returned set have equal length and entry i of each array belongs to the
\* same original point.
C1_ArraysStayAligned ==
    /\ Aligned(gaussians)
    /\ call.op # "none" => Aligned(call.ret)

\* A second pruning call in a row: it was given a set from which an earlier
\* call had removed the first point (so the second point had moved to index
\* 1), and it kept that point.
C1_Witness ==
    /\ call.op # "none"
    /\ Len(call.arg["_xyz"]) = 1
    /\ call.arg["_xyz"][1].pt = 2
    /\ Len(call.ret["_xyz"]) = 1

\* C2: with exactly one view (and the view threshold 1.0),
\* remove_gaussians_with_mask keeps exactly the points whose projected pixel
\* (u, v) is inside the image bounds and has mask value 1 at row v, column u.
C2_SingleViewKeepsMaskedPixels ==
    (call.op = "mask" /\ Len(views) = 1) =>
        \A i \in 1..Len(call.arg["_xyz"]) :
            LET e == call.arg["_xyz"][i]
                uv == ProjectUV(e.v, views[1], nanLong)
                u == uv[1]
                v == uv[2]
            IN (e.pt \in PointsOf(call.ret)) <=>
                   /\ 0 <= u /\ u < views[1].image_width
                   /\ 0 <= v /\ v < views[1].image_height
                   /\ views[1].alpha_mask[v + 1][u + 1] = 1

\* A single-view call that kept a point and removed another, one of them
\* projecting to a negative pixel coordinate.
C2_Witness ==
    /\ call.op = "mask"
    /\ Len(views) = 1
    /\ Len(call.ret["_xyz"]) = 1
    /\ Len(call.arg["_xyz"]) = 2
    /\ \E i \in 1..2 : ProjectUV(call.arg["_xyz"][i].v, views[1], nanLong)[1] < 0

\* The views, among the first n, in which point p is inside the image
\* bounds and on positive alpha-mask coverage.
ViewsSeeing(p, n) ==
    {k \in 1..n :
        LET uv == ProjectUV(p, views[k], nanLong)
        IN /\ 0 <= uv[1] /\ uv[1] < views[k].image_width
           /\ 0 <= uv[2] /\ uv[2] < views[k].image_height
           /\ views[k].alpha_mask[uv[2] + 1][uv[1] + 1] > 0}

C7_RemovesExactlyBelowThreshold ==
    call.op = "opacity" =>
        \A i \in 1..Len(call.arg["_opacity"]) :
            LET e == call.arg["_opacity"][i]
            IN (e.pt \notin PointsOf(call.ret)) <=>
                   (opacity_activation(e.v) < call.opacity_threshold)

\* s can be had from t by deleting entries: nothing added, repeated or moved.
RECURSIVE IsSubsequence(_, _)
IsSubsequence(s, t) ==
    IF s = <<>> THEN TRUE
    ELSE IF t = <<>> THEN FALSE
    ELSE IF Head(s) = Head(t) THEN IsSubsequence(Tail(s), Tail(t))
    ELSE IsSubsequence(s, Tail(t))

PruneIdle ==
    /\ views = <<>>
    /\ gaussians = <<>>
    /\ call = NoCall
    /\ nanLong = 0
    /\ rsPc = "idle"
    /\ rendered = <<>>

Header == <<"Case Name", "Train Frame Num", "Train Chamfer Error",
            "Test Frame Num", "Test Chamfer Error">>

\* The state of a call evaluate_prediction(start_frame, end_frame, ...) at
\* the head of its loop.  frames records the frame indices whose error was
\* appended to chamfer_errors.
NewCall(start_frame, end_frame) ==
    [start_frame |-> start_frame, end_frame |-> end_frame,
     frame_idx |-> start_frame, chamfer_errors |-> <<>>, frames |-> <<>>]

\* The tensors of the case being processed.
CurrentData == CaseData(dataset, cases[dirIdx].nframes)

\* Mutant of FrameCountMatches: the assertion is not evaluated.
FrameCountMatches_Unchecked(case) == TRUE

\* assert test_frame == vertices.shape[0]
FrameCountMatches(case) == case.test_frame = case.nframes

\* The arguments (start_frame, end_frame) of the train evaluation.
TrainRange(case) == <<1, case.train_frame>>

\* Mutant of TestRange: the test evaluation starts one frame late.
TestRange_SkipsFirst(case) == <<case.train_frame + 1, case.test_frame>>

\* The arguments (start_frame, end_frame) of the test evaluation.
TestRange(case) == <<case.train_frame, case.test_frame>>

InitEval ==
    /\ PruneIdle
    /\ RayIdle
    /\ dataset \in Datasets
    /\ cases \in CaseLists
    /\ dirIdx = 0
    /\ pc = "start"
    /\ ev = <<>>
    /\ results_train = <<>>
    /\ results_test = <<>>
    /\ rows = <<>>
    /\ lastEval = <<>>

\* The output file is opened and the header row written.
WriteHeader ==
    /\ pc = "start"
    /\ rows' = <<Header>>
    /\ pc' = "loop"
    /\ UNCHANGED <<dataset, cases, dirIdx, ev, results_train, results_test, lastEval, pruneVars, rayVars>>

\* The next case directory: its pickles and split are loaded and the frame
\* count asserted; a failed assertion ends the run, otherwise the train
\* evaluation is entered.
LoadCase ==
    /\ pc = "loop"
    /\ dirIdx < Len(cases)
    /\ dirIdx' = dirIdx + 1
    /\ LET case == cases[dirIdx + 1]
       IN \/ /\ ~FrameCountMatches(case)
             /\ pc' = "aborted"
             /\ UNCHANGED ev
          \/ /\ FrameCountMatches(case)
             /\ pc' = "train"
             /\ ev' = NewCall(TrainRange(case)[1], TrainRange(case)[2])
    /\ UNCHANGED <<dataset, cases, results_train, results_test, rows, lastEval, pruneVars, rayVars>>

\* One iteration of evaluate_prediction's loop: an index outside a tensor
\* raises IndexError, which nothing catches; otherwise the frame's error is
\* appended.
EvalFrame ==
    /\ pc \in {"train", "test"}
    /\ LoopContinues(ev.frame_idx, ev.end_frame)
    /\ \/ /\ ~FrameIndexable(CurrentData, ev.frame_idx)
          /\ pc' = "aborted"
          /\ UNCHANGED ev
       \/ /\ FrameIndexable(CurrentData, ev.frame_idx)
          /\ ev' = [ev EXCEPT
                      !.chamfer_errors = Append(@, FrameChamfer(CurrentData, ev.frame_idx)),
                      !.frames = Append(@, ev.frame_idx),
                      !.frame_idx = @ + 1]
          /\ UNCHANGED pc
    /\ UNCHANGED <<dataset, cases, dirIdx, results_train, results_test, rows, lastEval, pruneVars, rayVars>>

\* What evaluate_prediction returns once its loop is over (frames is kept
\* beside the two returned fields as the record of what was evaluated).
Results ==
    [frame_len |-> Len(ev.chamfer_errors),
     chamfer_error |-> np_mean(ev.chamfer_errors),
     frames |-> ev.frames]

Returned(split) ==
    [case |-> dirIdx, split |-> split, start_frame |-> ev.start_frame,
     end_frame |-> ev.end_frame, results |-> Results]

\* The train evaluation returns and the test evaluation is entered.
ReturnTrain ==
    /\ pc = "train"
    /\ ~LoopContinues(ev.frame_idx, ev.end_frame)
    /\ results_train' = Results
    /\ lastEval' = Returned("train")
    /\ ev' = NewCall(TestRange(cases[dirIdx])[1], TestRange(cases[dirIdx])[2])
    /\ pc' = "test"
    /\ UNCHANGED <<dataset, cases, dirIdx, results_test, rows, pruneVars, rayVars>>

\* The test evaluation returns.
ReturnTest ==
    /\ pc = "test"
    /\ ~LoopContinues(ev.frame_idx, ev.end_frame)
    /\ results_test' = Results
    /\ lastEval' = Returned("test")
    /\ pc' = "write"
    /\ UNCHANGED <<dataset, cases, dirIdx, ev, results_train, rows, pruneVars, rayVars>>

\* writer.writerow([...]) for the case.
WriteRow ==
    /\ pc = "write"
    /\ rows' = Append(rows, <<dirIdx, results_train.frame_len, results_train.chamfer_error,
                              results_test.frame_len, results_test.chamfer_error>>)
    /\ pc' = "loop"
    /\ UNCHANGED <<dataset, cases, dirIdx, ev, results_train, results_test, lastEval, pruneVars, rayVars>>

\* The loop over dir_names is over: file.close().
CloseFile ==
    /\ pc = "loop"
    /\ dirIdx = Len(cases)
    /\ pc' = "done"
    /\ UNCHANGED <<dataset, cases, dirIdx, ev, results_train, results_test, rows, lastEval, pruneVars, rayVars>>

NextEval ==
    \/ WriteHeader
    \/ LoadCase
    \/ EvalFrame
    \/ ReturnTrain
    \/ ReturnTest
    \/ WriteRow
    \/ CloseFile

SpecEval == InitEval /\ [][NextEval]_vars

\* ------------------------------------------------- evaluator: properties

\* The sum of the per-frame errors of frames a .. b-1, frame by frame.
RECURSIVE SumOfFrames(_, _, _)
SumOfFrames(data, a, b) ==
    IF a >= b THEN <<0, 1>>
    ELSE RatAdd(FrameChamfer(data, a), SumOfFrames(data, a + 1, b))

\* C4: for every frame range [start_frame, end_frame) with start_frame <
\* end_frame, evaluate_prediction returns frame_len = end_frame - start_frame
\* and chamfer_error = the arithmetic mean of the per-frame one-directional
\* L1 distances of exactly the frames start_frame .. end_frame-1, each once.
C4_MeanOverRange ==
    (lastEval # <<>> /\ lastEval.start_frame < lastEval.end_frame) =>
        LET a == lastEval.start_frame
            b == lastEval.end_frame
            data == CaseData(dataset, cases[lastEval.case].nframes)
            total == SumOfFrames(data, a, b)
        IN /\ lastEval.results.frame_len = b - a
           /\ lastEval.results.frames = [i \in 1..(b - a) |-> a + i - 1]
           /\ lastEval.results.chamfer_error = Rat(total[1], total[2] * (b - a))

\* A call over at least two frames returned a mean that is not a whole
\* number.
C4_Witness ==
    /\ lastEval # <<>>
    /\ lastEval.end_frame - lastEval.start_frame >= 2
    /\ lastEval.results.chamfer_error # "nan"
    /\ lastEval.results.chamfer_error[2] > 1

\* C5: frame 0 is skipped: for every case and every split values
\* (train_frame, test_frame) frame 0 is never among the frames evaluated in the
\* train split or in the test split.
C5_FrameZeroNeverEvaluated ==
    ev # <<>> => \A i \in 1..Len(ev.frames) : ev.frames[i] # 0

\* Case c fails the frame-count assertion.
Mismatch(c) == cases[c].test_frame # cases[c].nframes

\* C6: when a case's test split end frame differs from the number of
\* predicted frames, the run stops at the assertion before any evaluation of
\* that case, and no result row for that case or for any later case is
\* written.
C6_MismatchAbortsRun ==
    \A c \in 1..Len(cases) :
        Mismatch(c) =>
            /\ dirIdx <= c
            /\ dirIdx = c => pc = "aborted"
            /\ pc # "done"
            /\ lastEval # <<>> => lastEval.case < c
            /\ \A r \in 2..Len(rows) : rows[r][1] < c

\* The run stopped at the assertion of its second case, with the first
\* case's row (and the header) already written.
C6_Witness ==
    /\ pc = "aborted"
    /\ dirIdx = 2
    /\ Mismatch(2)
    /\ Len(rows) = 2

\* The values a perturbed coordinate pair may take.
PerturbedPoints == {<<a, b>> : a \in 0..3, b \in 0..3}

\* The data sets that differ from data in one thing frame f's error is
\* stated not to depend on: a ground-truth point of frame f flagged not
\* visible, a predicted vertex of frame f at an index >= num_surface_points,
\* the motion-validity flags, num_original_points, or the contents of another
\* frame.
Perturbations(data, f) ==
    LET hidden == {j \in 1..Len(data.object_points[f + 1]) :
                      ~data.object_visibilities[f + 1][j]}
        beyond == {j \in 1..Len(data.vertices[f + 1]) : j > data.num_surface_points}
        others == (1..Len(data.vertices)) \ {f + 1}
    IN {[data EXCEPT !.object_points[f + 1][j] = q] : j \in hidden, q \in PerturbedPoints}
       \cup {[data EXCEPT !.vertices[f + 1][j] = q] : j \in beyond, q \in PerturbedPoints}
       \cup {[data EXCEPT !.object_motions_valid =
                 [g \in 1..Len(data.object_motions_valid) |-> <<b, ~b>>]] : b \in BOOLEAN}
       \cup {[data EXCEPT !.num_original_points = n] : n \in 0..3}
       \cup {[data EXCEPT !.vertices[g] = smp.vertices,
                          !.object_points[g] = smp.object_points,
                          !.object_visibilities[g] = smp.object_visibilities] :
                g \in others, smp \in {FrameSamples[k] : k \in 1..Len(FrameSamples)}}

\* C9: the error computed for frame f depends only on the first
\* num_surface_points predicted vertices of frame f and on the ground-truth
\* points flagged visible in frame f: the same call on data changed anywhere
\* else yields the error the run appended.
C9_ErrorDependsOnlyOnVisibleAndSurface ==
    (pc \in {"train", "test"} /\ ev.frames # <<>>) =>
        LET f == ev.frames[Len(ev.frames)]
            err == ev.chamfer_errors[Len(ev.chamfer_errors)]
        IN \A alt \in Perturbations(CurrentData, f) :
               /\ FrameIndexable(alt, f)
               /\ FrameChamfer(alt, f) = err

\* An error other than zero was appended for a frame that has a ground-truth
\* point flagged not visible and a predicted vertex beyond the surface
\* points.
C9_Witness ==
    /\ pc \in {"train", "test"}
    /\ ev.frames # <<>>
    /\ LET f == ev.frames[Len(ev.frames)]
       IN /\ \E j \in 1..2 : ~CurrentData.object_visibilities[f + 1][j]
          /\ CurrentData.num_surface_points < Len(CurrentData.vertices[f + 1])
          /\ ev.chamfer_errors[Len(ev.chamfer_errors)] # <<0, 1>>

\* C10: for a case that passes the frame-count assertion with 1 <=
\* train_frame <= test_frame, the train and the test evaluation together
\* evaluate each of the frames 1 .. test_frame-1 exactly once, and the written
\* Train Frame Num plus Test Frame Num equals test_frame - 1.
C10_SplitsPartitionFrames ==
    \A c \in 1..Len(cases) :
        LET case == cases[c]
        IN (/\ case.test_frame = case.nframes
            /\ 1 <= case.train_frame
            /\ case.train_frame <= case.test_frame) =>
               /\ dirIdx = c => pc # "aborted"
               /\ (dirIdx = c /\ pc \in {"write", "loop", "done"}) =>
                      results_train.frames \o results_test.frames
                          = [i \in 1..(case.test_frame - 1) |-> i]
               /\ \A r \in 2..Len(rows) :
                      rows[r][1] = c => rows[r][2] + rows[r][4] = case.test_frame - 1

\* A row was written for a case whose train and test split both evaluated
\* at least one frame.
C10_Witness ==
    /\ pc = "loop"
    /\ Len(rows) >= 2
    /\ rows[Len(rows)][2] >= 1
    /\ rows[Len(rows)][4] >= 1
    /\ cases[dirIdx].train_frame >= 1

\* ------------------------------------------------------ get_ray_directions

\* The intrinsics a caller may hold (fx, fy positive), the image sizes and
\* the anti-aliasing factors it may pass.
IntrinsicsSet ==
    { <<<<2, 0, 1>>, <<0, 2, 1>>, <<0, 0, 1>>>>,
      <<<<1, 0, 0>>, <<0, 3, 1>>, <<0, 0, 1>>>> }

ImageSizes == 1..2

AntiAliasingFactors == 1..2

\* torch.rand_like draws from [0, 1): the draws modelled, in quarters.
RandQuarters == {0, 1, 3}

\* K *= anti_aliasing_factor; K[2, 2] = 1
ScaleIntrinsics(Kin, aa) ==
    [i \in 1..3 |-> [j \in 1..3 |-> IF i = 3 /\ j = 3 THEN 1 ELSE Kin[i][j] * aa]]

\* get_ray_directions(H, W, K, random=, return_uv=, flatten=,
\* anti_aliasing_factor=): the value returned and the tensor K as the call
\* leaves it.  jitter holds the random draws of each pixel (random only).
get_ray_directions(H, W, Kin, random, return_uv, flatten, aa, jitter) ==
    LET big == aa > 1
        H2 == IF big THEN H * aa ELSE H
        W2 == IF big THEN W * aa ELSE W
        Kout == IF big THEN ScaleIntrinsics(Kin, aa) ELSE Kin
        fx == Kout[1][1]
        fy == Kout[2][2]
        cx == Kout[1][3]
        cy == Kout[2][3]
        grid == [i \in 1..H2 |-> [j \in 1..W2 |-> <<j - 1, i - 1>>]]
        off(i, j, axis) == IF random THEN jitter[(i - 1) * W2 + j][axis] ELSE 2
        directions ==
            [i \in 1..H2 |-> [j \in 1..W2 |->
                <<Rat(4 * ((j - 1) - cx) + off(i, j, 1), 4 * fx),
                  Rat(4 * ((i - 1) - cy) + off(i, j, 2), 4 * fy),
                  <<1, 1>>>>]]
        Flat(m) == [k \in 1..(H2 * W2) |-> m[((k - 1) \div W2) + 1][((k - 1) % W2) + 1]]
        d == IF flatten THEN Flat(directions) ELSE directions
        g == IF flatten THEN Flat(grid) ELSE grid
    IN [K |-> Kout, ret |-> IF return_uv THEN <<d, g>> ELSE d]

InitRay ==
    /\ PruneIdle
    /\ EvalIdle
    /\ K0 \in IntrinsicsSet
    /\ K = K0
    /\ rayCalls = 0
    /\ rayLast = <<>>
    /\ rayPrev = <<>>

\* The caller passes its tensor K to get_ray_directions.
GetRayDirections ==
    /\ rayCalls < MaxRayCalls
    /\ \E H \in ImageSizes, W \in ImageSizes, aa \in AntiAliasingFactors,
          random \in BOOLEAN, return_uv \in BOOLEAN, flatten \in BOOLEAN :
          LET npix == IF aa > 1 THEN H * aa * W * aa ELSE H * W
          IN /\ ~random \/ npix <= MaxJitterPixels
             /\ \E jitter \in (IF random THEN [1..npix -> RandQuarters \X RandQuarters]
                                         ELSE {<<>>}) :
                   LET r == get_ray_directions(H, W, K, random, return_uv, flatten, aa, jitter)
                   IN /\ K' = r.K
                      /\ rayLast' = [H |-> H, W |-> W, random |-> random,
                                     return_uv |-> return_uv, flatten |-> flatten,
                                     anti_aliasing_factor |-> aa, ret |-> r.ret]
    /\ rayPrev' = rayLast
    /\ rayCalls' = rayCalls + 1
    /\ UNCHANGED <<K0, pruneVars, evalVars>>

NextRay == GetRayDirections

SpecRay == InitRay /\ [][NextRay]_vars

\* C8: get_ray_directions is pure: for every anti_aliasing_factor a call
\* leaves the caller's intrinsics K unchanged, so two successive calls with
\* the same H, W, K and random=False return the same directions.
C8_PureAndRepeatable ==
    /\ K = K0
    /\ (/\ rayPrev # <<>>
        /\ ~rayLast.random
        /\ [rayPrev EXCEPT !.ret = <<>>] = [rayLast EXCEPT !.ret = <<>>])
           => rayLast.ret = rayPrev.ret

====
